---- MODULE Spec2Model ----
(***************************************************************************)
(* cached-eth-rpc: the request pipeline of src/main.rs (rpc_call).         *)
(*                                                                         *)
(* One HTTP request is one task.  A task classifies the entries of the     *)
(* client batch against the cache, posts the residue to the upstream in    *)
(* one batch, correlates the upstream array with the pending requests,     *)
(* writes cacheable results back and assembles the response.               *)
(*                                                                         *)
(* Indices are 1-based here and 0-based in the source: a source index i    *)
(* is i + 1 in the model.  JSON values are modelled by short strings       *)
(* ("1" is the number 1, "null" is JSON null or an absent field).          *)
(***************************************************************************)
EXTENDS Integers, Sequences, FiniteSets, TLC

VARIABLES task, cache, first

vars == <<task, cache, first>>

(***************************************************************************)
(* Bounds of the model.                                                    *)
(***************************************************************************)
MaxBatch == 2
MaxResp == 2
\* The number of handles of the backend's connection pool.
PoolSize == 1

(***************************************************************************)
(* Option<T>                                                               *)
(***************************************************************************)
None == <<>>
Some(x) == <<x>>
IsSome(o) == o # <<>>
Unwrap(o) == o[1]

(***************************************************************************)
(* json_rpc: RequestId, JsonRpcResponse, DefinedError.                     *)
(***************************************************************************)
\* The JSON values an "id" field takes in the model: "1" and "2" are
\* integers, "null" is null or absent, "1.5" is a fractional number.
\* RequestId::try_from: null, a string or an integral number is an id.
RequestIdTryFrom(j) ==
    IF j \in {"1", "2", "null"} THEN [ok |-> TRUE, id |-> j]
    ELSE [ok |-> FALSE, id |-> "null"]

\* JsonRpcResponse::from_result(id, value)
from_result(id, value) == [id |-> id, kind |-> "result", value |-> value]

\* JsonRpcResponse::from_error(Option<RequestId>, DefinedError); the id of
\* None serialises as null.  err is the DefinedError, data its payload.
from_error(id_opt, err, data) ==
    [id |-> IF IsSome(id_opt) THEN Unwrap(id_opt) ELSE "null",
     kind |-> err, value |-> data]

\* JsonRpcResponse::from_custom_error(Option<RequestId>, error)
from_custom_error(id_opt, error) ==
    [id |-> IF IsSome(id_opt) THEN Unwrap(id_opt) ELSE "null",
     kind |-> "custom", value |-> error]

(***************************************************************************)
(* Client request bodies.                                                  *)
(***************************************************************************)
Obj(id, method, params) ==
    [kind |-> "object", id |-> id, method |-> method, params |-> params]

\* A batch element that is a JSON number such as 42.
NumberEntry == [kind |-> "number", id |-> "null", method |-> "null", params |-> "null"]

\* The "method" field is a JSON string for these values only.
MethodIsString(m) == m \in {"m", "nope"}

WellFormedEntries ==
    {Obj("1", "m", "pa"), Obj("1", "m", "pb"), Obj("2", "m", "pb"),
     Obj("null", "m", "latest"), Obj("2", "m", "perr"), Obj("1", "nope", "pa")}

MalformedEntries ==
    {Obj("1.5", "m", "pa"), Obj("2", "null", "pa"), NumberEntry}

Entries == WellFormedEntries \cup MalformedEntries

SeqsUpTo(S, n) == UNION {[1..k -> S] : k \in 0..n}

ArrayBody(es) == [shape |-> "array", entries |-> es]
ObjectBody(e) == [shape |-> "object", entries |-> <<e>>]
OtherBody == [shape |-> "other", entries |-> <<>>]

Bodies ==
    {ArrayBody(es) : es \in SeqsUpTo(Entries, MaxBatch)}
    \cup {ObjectBody(e) : e \in {x \in Entries : x.kind = "object"}}
    \cup {OtherBody}

(***************************************************************************)
(* rpc_cache_handler: the policy registry (chain_state.cache_entries).     *)
(***************************************************************************)
RegisteredMethods == {"m"}

\* handler.extract_cache_key(&params): Ok(Some(key)), Ok(None) or Err.
extract_cache_key(params) ==
    CASE params = "pa" -> [tag |-> "key", key |-> "ka"]
      [] params = "pb" -> [tag |-> "key", key |-> "kb"]
      [] params = "latest" -> [tag |-> "skip", key |-> ""]
      [] OTHER -> [tag |-> "err", key |-> ""]

\* handler.extract_cache_value(&result): Ok((can_cache, value)) or Err.
\* A cacheable value is the result the policy accepts; a null result is
\* never cacheable.
extract_cache_value(result) ==
    CASE result \in {"rA", "rB"} -> [tag |-> "ok", can_cache |-> TRUE, value |-> result]
      [] result = "null" -> [tag |-> "ok", can_cache |-> FALSE, value |-> result]
      [] OTHER -> [tag |-> "err", can_cache |-> FALSE, value |-> result]

(***************************************************************************)
(* cache backend: a map from namespaced key to serialised value.           *)
(***************************************************************************)
ParamKeys == {"ka", "kb"}
CacheKey(method, params_key) == <<method, params_key>>
Methods == {"m", "nope"}
CacheKeys == {CacheKey(m, k) : m \in Methods, k \in ParamKeys}

NoValue == <<>>
\* Value::to_string and the parse done by the backend on a read.
to_string(v) == <<"text", v>>
from_str(s) == s[2]

\* cache_backend.read(&method, &params_key) with the backend answering ok.
backend_read(c, method, params_key) ==
    LET key == CacheKey(method, params_key) IN
    IF c[key] = NoValue THEN [status |-> "Missed", key |-> key, value |-> "null"]
    ELSE [status |-> "Cached", key |-> key, value |-> from_str(c[key])]

\* cache_backend.write(&key, &value): outcome "ok" stores, "err" does not.
backend_write(c, key, value, outcome) ==
    IF outcome = "ok" THEN [c EXCEPT ![key] = value] ELSE c

(***************************************************************************)
(* Upstream replies (utils::do_rpc_request).                               *)
(***************************************************************************)
Elem(id, error, result) ==
    [kind |-> "object", id |-> id, error |-> error, result |-> result]
NumberElem == [kind |-> "number", id |-> "null", error |-> "null", result |-> "null"]

UpstreamElems ==
    {Elem("1", "null", "rA"), Elem("1", "null", "rB"), Elem("2", "null", "rB"),
     Elem("null", "null", "rA"), Elem("2", "null", "null"), Elem("1", "e1", "null"),
     Elem("2", "null", "rX"), NumberElem}

UpstreamReplies ==
    {[kind |-> "array", values |-> vs] : vs \in SeqsUpTo(UpstreamElems, MaxResp)}
    \cup {[kind |-> "transport_error", values |-> <<>>],
          [kind |-> "not_array", values |-> <<>>]}

(***************************************************************************)
(* The task (one run of rpc_call).                                         *)
(***************************************************************************)
Tasks == {"t1"}
\* The tasks of the server when requests run concurrently.
PoolTasks == {"t1", "t2"}

EmptyMap == <<>>
MapInsert(m, k, v) == [x \in (DOMAIN m) \cup {k} |-> IF x = k THEN v ELSE m[x]]

Idle ==
    [pc |-> "idle",
     body |-> OtherBody,
     requests |-> <<>>,
     is_single_request |-> FALSE,
     ordered_requests_result |-> <<>>,
     uncached_requests |-> <<>>,
     request_id_index_map |-> EmptyMap,
     index |-> 1,
     result_values |-> <<>>,
     held |-> 0,
     response |-> None,
     \* history of the request, for the properties
     cache0 |-> [k \in CacheKeys |-> NoValue],
     acquired |-> <<>>,
     upstream |-> "none",
     assembled |-> FALSE,
     cache_reads |-> <<>>,
     cache_writes |-> <<>>,
     posts |-> <<>>,
     classified |-> <<>>,
     bound |-> <<>>]

\* The HTTP response body: a single object or an array of slots.
ObjectResponse(r) == [shape |-> "object", payload |-> <<Some(r)>>]
ArrayResponse(rs) == [shape |-> "array", payload |-> rs]

Respond(L, resp) == [L EXCEPT !.pc = "done", !.held = 0, !.response = Some(resp)]
Panic(L) == [L EXCEPT !.pc = "panicked", !.held = 0]

\* rpc_call, lines 36-44: the match on the body and the allocations.
ReceiveStep(b, c) ==
    IF b.shape = "other"
    THEN Respond([Idle EXCEPT !.body = b, !.cache0 = c],
                 ObjectResponse(from_error(None, "InvalidRequest", "")))
    ELSE [Idle EXCEPT !.pc = "acquire",
                      !.body = b,
                      !.cache0 = c,
                      !.requests = b.entries,
                      !.is_single_request = (b.shape = "object"),
                      !.ordered_requests_result = [i \in 1..Len(b.entries) |-> None]]

\* rpc_call, lines 48-61: get_instance() for the classification.
AcquireStep(L, ok) ==
    IF ok THEN [L EXCEPT !.pc = "classify", !.held = 1, !.index = 1,
                         !.acquired = Append(@, TRUE)]
    ELSE Respond([L EXCEPT !.acquired = Append(@, FALSE)], ObjectResponse(
             from_error(None, "InternalError", "fail to get cache backend")))

\* extract_single_request_info; indexing a JSON value that is neither an
\* object nor null with ["id"] for a take() panics.
extract_single_request_info(raw) ==
    IF raw.kind \notin {"object", "null"}
    THEN [tag |-> "panic", id_opt |-> None, err |-> "", id |-> "null",
          method |-> "", params |-> ""]
    ELSE LET rid == RequestIdTryFrom(raw.id) IN
         IF ~rid.ok
         THEN [tag |-> "err", id_opt |-> None, err |-> "InvalidRequest",
               id |-> "null", method |-> "", params |-> ""]
         ELSE IF ~MethodIsString(raw.method)
         THEN [tag |-> "err", id_opt |-> Some(rid.id), err |-> "MethodNotFound",
               id |-> rid.id, method |-> "", params |-> ""]
         ELSE [tag |-> "ok", id_opt |-> Some(rid.id), err |-> "", id |-> rid.id,
               method |-> raw.method, params |-> raw.params]

\* RpcRequest::new / RpcRequest::new_uncachable
RpcRequest(index, id, method, params, cache_key) ==
    [index |-> index, id |-> id, method |-> method, params |-> params,
     cache_key |-> cache_key]

push_uncached_request_and_continue_keyed(L, info, cache_key) ==
    LET rpc_request == RpcRequest(L.index, info.id, info.method, info.params,
                                  Some(CacheKey(info.method, "ka"))) IN
    [L EXCEPT !.request_id_index_map =
                  MapInsert(@, rpc_request.id, Len(L.uncached_requests) + 1),
              !.uncached_requests = Append(@, rpc_request),
              !.index = @ + 1]

\* push_uncached_request_and_continue!
push_uncached_request_and_continue(L, info, cache_key) ==
    LET rpc_request == RpcRequest(L.index, info.id, info.method, info.params, cache_key) IN
    [L EXCEPT !.request_id_index_map =
                  MapInsert(@, rpc_request.id, Len(L.uncached_requests) + 1),
              !.uncached_requests = Append(@, rpc_request),
              !.index = @ + 1]

\* The slot write of a malformed entry, line 67-68.
ResolveMalformed(L, info) ==
    [L EXCEPT !.ordered_requests_result =
                  Append(@, Some(from_error(info.id_opt, info.err, ""))),
              !.index = @ + 1]

CachedResponse_noid(id, read) == from_result("null", read.value)

\* The response of a cache hit, line 113.
CachedResponse(id, read) == from_result(id, read.value)

IsRegistered_all(method) == TRUE

\* chain_state.cache_entries.get(&method), line 89.
IsRegistered(method) == method \in RegisteredMethods

\* One iteration of the classification loop, lines 63-124.  rd is the
\* outcome of the backend read, when the iteration makes one.
ClassifyStep(L, c, rd) ==
    LET info == extract_single_request_info(L.requests[L.index]) IN
    IF info.tag = "panic" THEN Panic(L)
    ELSE IF info.tag = "err" THEN ResolveMalformed(L, info)
    ELSE IF ~IsRegistered(info.method)
    THEN push_uncached_request_and_continue(L, info, None)
    ELSE LET kd == extract_cache_key(info.params) IN
         IF kd.tag # "key"
         THEN push_uncached_request_and_continue(L, info, None)
         ELSE LET read == backend_read(c, info.method, kd.key)
                  logged == [L EXCEPT !.cache_reads =
                                Append(@, [index |-> L.index, method |-> info.method,
                                           params_key |-> kd.key,
                                           status |-> IF rd = "err" THEN "Err"
                                                      ELSE read.status])]
              IN
              IF rd = "err"
              THEN push_uncached_request_and_continue(logged, info, None)
              ELSE IF read.status = "Missed"
              THEN push_uncached_request_and_continue(logged, info, Some(read.key))
              ELSE [logged EXCEPT
                       !.ordered_requests_result[L.index] =
                           Some(CachedResponse(info.id, read)),
                       !.index = @ + 1]

\* return_response!, lines 127-134.
return_response(L) ==
    LET A == [L EXCEPT !.assembled = TRUE] IN
    IF L.is_single_request
    THEN IF IsSome(L.ordered_requests_result[1])
         THEN Respond(A, ObjectResponse(Unwrap(L.ordered_requests_result[1])))
         ELSE Panic(A)
    ELSE Respond(A, ArrayResponse(L.ordered_requests_result))

Serialize_noid(rpc_request) ==
    [id |-> "null", method |-> rpc_request.method, params |-> rpc_request.params]

\* RpcRequest::serialize
Serialize(rpc_request) ==
    [id |-> rpc_request.id, method |-> rpc_request.method,
     params |-> rpc_request.params]

SerializeAll(rs) == [i \in 1..Len(rs) |-> Serialize(rs[i])]

ScopeEnd_keep(L) == L

\* The end of the scope of line 47: cache_backend is dropped at line 125.
ScopeEnd(L) == [L EXCEPT !.held = 0]

\* The end of the classification scope and lines 136-144.
EndClassifyStep(L) ==
    LET released == [ScopeEnd(L) EXCEPT !.classified = L.ordered_requests_result] IN
    IF released.uncached_requests = <<>>
    THEN return_response(released)
    ELSE [released EXCEPT !.pc = "upstream",
                          !.posts = Append(@, SerializeAll(L.uncached_requests))]

FailPending_noid(L, reason) ==
    LET RECURSIVE go(_, _)
        go(res, k) ==
            IF k > Len(L.uncached_requests) THEN res
            ELSE go([res EXCEPT ![L.uncached_requests[k].index] =
                         Some(from_error(None, "InternalError", reason))],
                    k + 1)
    IN [L EXCEPT !.ordered_requests_result = go(@, 1)]

\* The loops of lines 151-159, 173-182 and 201-209: every pending slot is
\* resolved with an InternalError under its own id.
FailPending(L, reason) ==
    LET RECURSIVE go(_, _)
        go(res, k) ==
            IF k > Len(L.uncached_requests) THEN res
            ELSE go([res EXCEPT ![L.uncached_requests[k].index] =
                         Some(from_error(Some(L.uncached_requests[k].id),
                                         "InternalError", reason))],
                    k + 1)
    IN [L EXCEPT !.ordered_requests_result = go(@, 1)]

\* Lines 146-194: the outcome of the POST.
UpstreamStep(L, reply) ==
    LET U == [L EXCEPT !.upstream = reply.kind] IN
    CASE reply.kind = "transport_error" ->
            return_response(FailPending(U, "fail to make rpc request to backend"))
      [] reply.kind = "not_array" ->
            return_response(FailPending(U, "invalid rpc response from backend"))
      [] OTHER ->
            [U EXCEPT !.pc = "acquire2", !.result_values = reply.values]

\* Lines 196-213: get_instance() for the write-back.
AcquireAgainStep(L, ok) ==
    IF ok THEN [L EXCEPT !.pc = "correlate", !.held = 1, !.index = 1,
                         !.acquired = Append(@, TRUE),
                         !.bound = [i \in 1..Len(L.requests) |-> 0]]
    ELSE return_response(FailPending([L EXCEPT !.acquired = Append(@, FALSE)],
                                     "fail to get cache backend"))

BoundPosition_positional(L, e, i) ==
    IF i > Len(L.uncached_requests) THEN 0 ELSE i

\* Lines 216-231: the pending request an upstream element is bound to, as a
\* position in uncached_requests; 0 when the element is ignored.
BoundPosition(L, e, i) ==
    LET rid == RequestIdTryFrom(e.id) IN
    IF rid.ok /\ rid.id \in DOMAIN L.request_id_index_map
    THEN L.request_id_index_map[rid.id]
    ELSE IF i > Len(L.uncached_requests) THEN 0 ELSE i

HasError_never(e) == FALSE

\* The match of line 233: the element carries an error that is not null.
HasError(e) == e.error # "null"

ShouldWrite_always(ev) == TRUE

\* The write-back condition of line 273.
ShouldWrite(ev) == ev.can_cache

\* One iteration of the correlation loop, lines 215-276.  wr is the outcome
\* of the backend write, when the iteration makes one.
CorrelateStep(L, c, wr) ==
    LET e == L.result_values[L.index]
        pos == BoundPosition(L, e, L.index)
        next == [L EXCEPT !.index = @ + 1]
    IN
    IF pos = 0 THEN [L |-> next, cache |-> c]
    ELSE IF e.kind \notin {"object", "null"} THEN [L |-> Panic(L), cache |-> c]
    ELSE
    LET rpc_request == L.uncached_requests[pos]
        slot == rpc_request.index
        marked == [next EXCEPT !.bound[slot] = L.index]
    IN
    IF HasError(e)
    THEN [L |-> [marked EXCEPT !.ordered_requests_result[slot] =
                    Some(from_custom_error(Some(rpc_request.id), e.error))],
          cache |-> c]
    ELSE
    LET resolved == [marked EXCEPT !.ordered_requests_result[slot] =
                        Some(from_result(rpc_request.id, e.result))]
    IN
    IF ~IsSome(rpc_request.cache_key) THEN [L |-> resolved, cache |-> c]
    ELSE
    LET ev == extract_cache_value(e.result) IN
    IF ev.tag = "err"
    THEN [L |-> [resolved EXCEPT !.ordered_requests_result[slot] =
                    Some(from_error(Some(rpc_request.id), "InternalError",
                                    "fail to extract cache value"))],
          cache |-> c]
    ELSE IF ShouldWrite(ev)
    THEN [L |-> [resolved EXCEPT !.cache_writes =
                    Append(@, [slot |-> slot, elem |-> L.index,
                               key |-> Unwrap(rpc_request.cache_key),
                               value |-> to_string(ev.value), outcome |-> wr])],
          cache |-> backend_write(c, Unwrap(rpc_request.cache_key),
                                  to_string(ev.value), wr)]
    ELSE [L |-> resolved, cache |-> c]

(***************************************************************************)
(* History of the last finished request, for the idempotence property:    *)
(* a one-entry request whose entry missed the cache, was answered by the  *)
(* upstream with a cacheable result, and whose write-back succeeded.      *)
(***************************************************************************)
NoRun == [ran |-> FALSE, body |-> OtherBody, result |-> ""]

CacheableFirstRun(L) ==
    /\ L.pc = "done"
    /\ Len(L.body.entries) = 1
    /\ Len(L.cache_reads) = 1
    /\ L.cache_reads[1].status = "Missed"
    /\ Len(L.bound) = 1
    /\ L.bound[1] # 0
    /\ \E k \in 1..Len(L.cache_writes) :
           /\ L.cache_writes[k].elem = L.bound[1]
           /\ L.cache_writes[k].outcome = "ok"
    /\ Unwrap(L.response).payload[1] =
           Some([id |-> L.body.entries[1].id, kind |-> "result",
                 value |-> L.result_values[L.bound[1]].result])

Summary(L) ==
    IF CacheableFirstRun(L)
    THEN [ran |-> TRUE, body |-> L.body,
          result |-> L.result_values[L.bound[1]].result]
    ELSE NoRun

(***************************************************************************)
(* Actions.                                                                *)
(***************************************************************************)
\* The handles of the pool that the tasks hold.
RECURSIVE SumHeld(_)
SumHeld(S) ==
    IF S = {} THEN 0
    ELSE LET t == CHOOSE x \in S : TRUE IN task[t].held + SumHeld(S \ {t})

HandlesInUse == SumHeld(PoolTasks)

Init ==
    /\ task = [t \in PoolTasks |-> Idle]
    /\ cache = [k \in CacheKeys |-> NoValue]
    /\ first = NoRun

Receive(t) ==
    /\ task[t].pc = "idle"
    /\ \E b \in Bodies : task' = [task EXCEPT ![t] = ReceiveStep(b, cache)]
    /\ UNCHANGED <<cache, first>>

Acquire(t) ==
    /\ task[t].pc = "acquire"
    /\ \E ok \in BOOLEAN :
           /\ ok => HandlesInUse < PoolSize
           /\ task' = [task EXCEPT ![t] = AcquireStep(task[t], ok)]
    /\ UNCHANGED <<cache, first>>

ClassifyEntry(t) ==
    /\ task[t].pc = "classify"
    /\ task[t].index <= Len(task[t].requests)
    /\ \E rd \in {"ok", "err"} :
           task' = [task EXCEPT ![t] = ClassifyStep(task[t], cache, rd)]
    /\ UNCHANGED <<cache, first>>

EndClassify(t) ==
    /\ task[t].pc = "classify"
    /\ task[t].index > Len(task[t].requests)
    /\ task' = [task EXCEPT ![t] = EndClassifyStep(task[t])]
    /\ UNCHANGED <<cache, first>>

UpstreamReply(t) ==
    /\ task[t].pc = "upstream"
    /\ \E reply \in UpstreamReplies :
           task' = [task EXCEPT ![t] = UpstreamStep(task[t], reply)]
    /\ UNCHANGED <<cache, first>>

AcquireAgain(t) ==
    /\ task[t].pc = "acquire2"
    /\ \E ok \in BOOLEAN :
           /\ ok => HandlesInUse < PoolSize
           /\ task' = [task EXCEPT ![t] = AcquireAgainStep(task[t], ok)]
    /\ UNCHANGED <<cache, first>>

CorrelateElement(t) ==
    /\ task[t].pc = "correlate"
    /\ task[t].index <= Len(task[t].result_values)
    /\ \E wr \in {"ok", "err"} :
           LET r == CorrelateStep(task[t], cache, wr) IN
           /\ task' = [task EXCEPT ![t] = r.L]
           /\ cache' = r.cache
           /\ UNCHANGED first

EndCorrelate(t) ==
    /\ task[t].pc = "correlate"
    /\ task[t].index > Len(task[t].result_values)
    /\ task' = [task EXCEPT ![t] = return_response(task[t])]
    /\ UNCHANGED <<cache, first>>

\* The response (or the panic) has left the handler; the worker serves the
\* next request.
Finish(t) ==
    /\ task[t].pc \in {"done", "panicked"}
    /\ task' = [task EXCEPT ![t] = Idle]
    /\ UNCHANGED <<cache, first>>

\* A request of one entry: a single object, or an array of one element.
OneEntryBodies == {b \in Bodies : Len(b.entries) = 1}

ReceiveOne(t) ==
    /\ task[t].pc = "idle"
    /\ \E b \in OneEntryBodies : task' = [task EXCEPT ![t] = ReceiveStep(b, cache)]
    /\ UNCHANGED <<cache, first>>

\* Finish, keeping the history of the request that ends.
FinishRecording(t) ==
    /\ task[t].pc \in {"done", "panicked"}
    /\ task' = [task EXCEPT ![t] = Idle]
    /\ first' = Summary(task[t])
    /\ UNCHANGED cache

Next ==
    \E t \in Tasks :
        \/ Receive(t)
        \/ Acquire(t)
        \/ ClassifyEntry(t)
        \/ EndClassify(t)
        \/ UpstreamReply(t)
        \/ AcquireAgain(t)
        \/ CorrelateElement(t)
        \/ EndCorrelate(t)
        \/ Finish(t)

Spec == Init /\ [][Next]_vars

\* One-entry requests served one after the other, with the history kept.
NextIdem ==
    \E t \in Tasks :
        \/ ReceiveOne(t)
        \/ Acquire(t)
        \/ ClassifyEntry(t)
        \/ EndClassify(t)
        \/ UpstreamReply(t)
        \/ AcquireAgain(t)
        \/ CorrelateElement(t)
        \/ EndCorrelate(t)
        \/ FinishRecording(t)

SpecIdem == Init /\ [][NextIdem]_vars

\* The upstream node's answer to a call.
Truth(method, params) ==
    CASE params = "pa" -> "rA"
      [] params = "pb" -> "rB"
      [] params = "latest" -> "rA"
      [] OTHER -> "rX"

\* The reply of an upstream that answers every forwarded request, in
\* request order, echoing its id.
CorrectReplyFor(rqs) ==
    [kind |-> "array",
     values |-> [k \in 1..Len(rqs) |->
                    Elem(rqs[k].id, "null", Truth(rqs[k].method, rqs[k].params))]]

\* Concurrent requests over a pool of PoolSize handles.
PoolBodies ==
    {ArrayBody(<<>>),
     ArrayBody(<<Obj("1", "m", "pa")>>),
     ArrayBody(<<Obj("1", "m", "pa"), Obj("2", "m", "pb")>>),
     ObjectBody(Obj("1", "nope", "pa")),
     OtherBody}

ReceivePool(t) ==
    /\ task[t].pc = "idle"
    /\ \E b \in PoolBodies : task' = [task EXCEPT ![t] = ReceiveStep(b, cache)]
    /\ UNCHANGED <<cache, first>>

UpstreamReplyPool(t) ==
    /\ task[t].pc = "upstream"
    /\ \E reply \in {CorrectReplyFor(task[t].uncached_requests),
                      [kind |-> "transport_error", values |-> <<>>]} :
           task' = [task EXCEPT ![t] = UpstreamStep(task[t], reply)]
    /\ UNCHANGED <<cache, first>>

NextPool ==
    \E t \in PoolTasks :
        \/ ReceivePool(t)
        \/ Acquire(t)
        \/ ClassifyEntry(t)
        \/ EndClassify(t)
        \/ UpstreamReplyPool(t)
        \/ AcquireAgain(t)
        \/ CorrelateElement(t)
        \/ EndCorrelate(t)
        \/ Finish(t)

SpecPool == Init /\ [][NextPool]_vars

(***************************************************************************)
(* Vocabulary of the properties.                                           *)
(***************************************************************************)
\* An entry that parses (section 4.B): a JSON object with a valid id and a
\* string method.
WellFormedEntry(e) ==
    e.kind = "object" /\ RequestIdTryFrom(e.id).ok /\ MethodIsString(e.method)

\* The error response section 4.B gives a malformed entry.
MalformedResponse(e) ==
    IF e.kind # "object" \/ ~RequestIdTryFrom(e.id).ok
    THEN [id |-> "null", kind |-> "InvalidRequest", value |-> ""]
    ELSE [id |-> e.id, kind |-> "MethodNotFound", value |-> ""]

\* The classification loop has gone past entry i.
Classified(L, i) ==
    \/ L.pc = "classify" /\ L.index > i
    \/ L.pc \in {"upstream", "acquire2", "correlate"}
    \/ L.pc = "done" /\ L.assembled

\* The read of entry i was answered from the cache.
Hit(L, i) == \E k \in 1..Len(L.cache_reads) :
                 L.cache_reads[k].index = i /\ L.cache_reads[k].status = "Cached"

(***************************************************************************)
(* C1: the assembled response of a batch of N entries has exactly N        *)
(* elements, and the element at the position of every well-formed entry   *)
(* is a response carrying that entry's id.                                 *)
(***************************************************************************)
C1_ResponseMatchesBatch ==
    \A t \in Tasks :
        LET L == task[t]
            B == L.body.entries
        IN (L.pc = "done" /\ L.assembled) =>
           LET R == Unwrap(L.response).payload IN
           /\ Len(R) = Len(B)
           /\ \A i \in 1..Len(B) :
                  WellFormedEntry(B[i]) =>
                      /\ i <= Len(R)
                      /\ IsSome(R[i])
                      /\ Unwrap(R[i]).id = B[i].id

(***************************************************************************)
(* C2: on every exit path a single-object request is answered with a      *)
(* single object and an array request with an array.                      *)
(***************************************************************************)
C2_ShapePreserved ==
    \A t \in Tasks :
        LET L == task[t] IN
        (L.pc = "done" /\ L.body.shape \in {"object", "array"}) =>
            Unwrap(L.response).shape = L.body.shape

(***************************************************************************)
(* C5: a malformed entry at index i of a batch resolves slot i itself     *)
(* (InvalidRequest with id null for an invalid id or a non-object,        *)
(* MethodNotFound with the entry's id for a missing method), and the      *)
(* classification goes on with entry i + 1.                                *)
(***************************************************************************)
C5_MalformedResolvesOwnSlot ==
    \A t \in Tasks :
        LET L == task[t]
            B == L.body.entries
        IN L.body.shape = "array" =>
           /\ L.pc = "panicked" => \A i \in 1..Len(B) : B[i].kind = "object"
           /\ \A i \in 1..Len(B) :
                  (~WellFormedEntry(B[i]) /\ Classified(L, i)) =>
                      /\ i <= Len(L.ordered_requests_result)
                      /\ L.ordered_requests_result[i] = Some(MalformedResponse(B[i]))

(***************************************************************************)
(* C7: one client request causes at most one upstream POST; it is made    *)
(* only when a slot is pending, and its array holds exactly the pending   *)
(* entries (well-formed and not answered from the cache), in input order, *)
(* each with the id, method and params of its entry.                      *)
(***************************************************************************)
ExpectedPost(L) ==
    LET B == L.body.entries
        RECURSIVE go(_)
        go(i) ==
            IF i > Len(B) THEN <<>>
            ELSE IF WellFormedEntry(B[i]) /\ ~Hit(L, i)
                 THEN <<[id |-> B[i].id, method |-> B[i].method,
                         params |-> B[i].params]>> \o go(i + 1)
                 ELSE go(i + 1)
    IN go(1)

C7_SingleUpstreamRoundTrip ==
    \A t \in Tasks :
        LET L == task[t] IN
        /\ Len(L.posts) <= 1
        /\ L.posts # <<>> => /\ L.posts[1] # <<>>
                             /\ L.posts[1] = ExpectedPost(L)

\* A batch of a cache hit and a miss: the POST carries the miss alone.
C7_Witness ==
    \E t \in Tasks :
        LET L == task[t] IN
        /\ L.pc = "done"
        /\ Len(L.body.entries) = 2
        /\ Hit(L, 1)
        /\ Len(L.posts) = 1
        /\ Len(L.posts[1]) = 1

(***************************************************************************)
(* C8: when the POST fails or its body is not an array, every pending     *)
(* slot resolves to an InternalError under its own request id, the slots  *)
(* resolved from the cache keep their cached result, and the request      *)
(* writes nothing to the cache.                                            *)
(***************************************************************************)
FailureReason(kind) ==
    IF kind = "transport_error" THEN "fail to make rpc request to backend"
    ELSE "invalid rpc response from backend"

C8_UpstreamFailure ==
    \A t \in Tasks :
        LET L == task[t]
            B == L.body.entries
        IN L.upstream \in {"transport_error", "not_array"} =>
           /\ L.pc = "done"
           /\ L.cache_writes = <<>>
           /\ cache = L.cache0
           /\ LET R == Unwrap(L.response).payload IN
              \A i \in 1..Len(B) :
                  /\ (WellFormedEntry(B[i]) /\ ~Hit(L, i)) =>
                         R[i] = Some([id |-> B[i].id, kind |-> "InternalError",
                                      value |-> FailureReason(L.upstream)])
                  /\ Hit(L, i) =>
                         R[i] = Some([id |-> B[i].id, kind |-> "result",
                                      value |-> from_str(L.cache0[CacheKey(B[i].method,
                                                   extract_cache_key(B[i].params).key)])])

\* A failed POST for a batch of a cache hit and a pending entry.
C8_Witness ==
    \E t \in Tasks :
        LET L == task[t] IN
        /\ L.pc = "done"
        /\ L.upstream = "transport_error"
        /\ Len(L.body.entries) = 2
        /\ Hit(L, 1)
        /\ Len(L.uncached_requests) = 1

(***************************************************************************)
(* C9: the step that handles an upstream result for which extractValue    *)
(* answers NotCacheable, bound to a pending-cacheable slot, writes        *)
(* nothing to the cache backend, leaves the cache as it is, and the slot  *)
(* holds the upstream result.                                              *)
(***************************************************************************)
Keyed(L, slot) ==
    \E k \in 1..Len(L.uncached_requests) :
        /\ L.uncached_requests[k].index = slot
        /\ IsSome(L.uncached_requests[k].cache_key)

NotCacheableElem(e) ==
    /\ e.kind = "object"
    /\ e.error = "null"
    /\ extract_cache_value(e.result).tag = "ok"
    /\ ~extract_cache_value(e.result).can_cache

C9_NoNegativeCaching ==
    [][\A t \in Tasks :
         LET L == task[t]
             M == task'[t]
         IN (L.pc = "correlate" /\ M.pc = "correlate" /\ M.index = L.index + 1) =>
            \A slot \in 1..Len(L.body.entries) :
                (/\ M.bound[slot] = L.index
                 /\ Keyed(L, slot)
                 /\ NotCacheableElem(L.result_values[L.index])) =>
                    /\ cache' = cache
                    /\ M.cache_writes = L.cache_writes
                    /\ M.ordered_requests_result[slot] =
                           Some([id |-> L.body.entries[slot].id, kind |-> "result",
                                 value |-> L.result_values[L.index].result])]_vars

\* A null result was bound to a pending-cacheable slot.
C9_Witness ==
    \E t \in Tasks :
        LET L == task[t] IN
        /\ L.pc = "correlate"
        /\ \E slot \in 1..Len(L.body.entries) :
               /\ Keyed(L, slot)
               /\ L.bound[slot] # 0
               /\ L.bound[slot] = L.index - 1
               /\ NotCacheableElem(L.result_values[L.bound[slot]])

(***************************************************************************)
(* C10: an entry whose method is not in the registry causes no cache read *)
(* and no cache write; it is forwarded with its own id, method and        *)
(* params, and the client receives, under that id, the result or error    *)
(* of the upstream element bound to it.                                    *)
(***************************************************************************)
UnknownMethod(e) == WellFormedEntry(e) /\ e.method \notin RegisteredMethods

SecondRun(L) ==
    /\ first.ran
    /\ L.body = first.body
    /\ L.pc \in {"done", "panicked"}

SameAnswerNoPost(L) ==
    /\ L.pc = "done"
    /\ Unwrap(L.response).payload[1] =
           Some([id |-> L.body.entries[1].id, kind |-> "result",
                 value |-> first.result])
    /\ L.posts = <<>>

C3_Idempotence ==
    \A t \in Tasks :
        LET L == task[t] IN
        (/\ SecondRun(L)
         /\ L.acquired # <<>> /\ L.acquired[1]
         /\ \A k \in 1..Len(L.cache_reads) : L.cache_reads[k].status # "Err") =>
            SameAnswerNoPost(L)

\* C3 as stated: every second run of E returns the first run's result and
\* issues no POST.
C3_IdempotenceAsStated ==
    \A t \in Tasks :
        LET L == task[t] IN SecondRun(L) => SameAnswerNoPost(L)

\* A second run answered from the cache.
C3_Witness ==
    \E t \in Tasks :
        LET L == task[t] IN
        /\ SecondRun(L)
        /\ Hit(L, 1)
        /\ SameAnswerNoPost(L)

(***************************************************************************)
(* Whole runs of rpc_call as operators, built from the steps the actions  *)
(* take: the run of a request under a given environment (the outcome of   *)
(* each handle acquisition, cache read and cache write, and the upstream  *)
(* reply).  They give the runs a property compares a behaviour with.      *)
(***************************************************************************)
RECURSIVE RunClassify(_, _, _)
RunClassify(L, c, rds) ==
    IF L.pc # "classify" THEN L
    ELSE IF L.index > Len(L.requests) THEN EndClassifyStep(L)
    ELSE RunClassify(ClassifyStep(L, c, rds[L.index]), c, rds)

RECURSIVE RunCorrelate(_, _, _)
RunCorrelate(L, c, wrs) ==
    IF L.pc # "correlate" THEN [L |-> L, cache |-> c]
    ELSE IF L.index > Len(L.result_values)
    THEN [L |-> return_response(L), cache |-> c]
    ELSE LET r == CorrelateStep(L, c, wrs[L.index]) IN
         RunCorrelate(r.L, r.cache, wrs)

Run(b, c, acq1, rds, reply, acq2, wrs) ==
    LET L1 == ReceiveStep(b, c)
        L2 == IF L1.pc = "acquire" THEN AcquireStep(L1, acq1) ELSE L1
        L3 == RunClassify(L2, c, rds)
        L4 == IF L3.pc = "upstream" THEN UpstreamStep(L3, reply) ELSE L3
        L5 == IF L4.pc = "acquire2" THEN AcquireAgainStep(L4, acq2) ELSE L4
    IN RunCorrelate(L5, c, wrs)

(***************************************************************************)
(* C4: order independence of the upstream exchange.  When the pending     *)
(* entries carry pairwise distinct ids and the upstream array holds       *)
(* exactly one element per pending request, echoing its id, the           *)
(* correlation of every permutation of that array ends in the response    *)
(* this run assembled, and every pending slot holds the result, or the    *)
(* error, of the element with its id.                                      *)
(***************************************************************************)
DistinctPendingIds(L) ==
    \A k1, k2 \in 1..Len(L.uncached_requests) :
        k1 # k2 => L.uncached_requests[k1].id # L.uncached_requests[k2].id

EchoReply(L) ==
    /\ L.upstream = "array"
    /\ Len(L.result_values) = Len(L.uncached_requests)
    /\ \A j \in 1..Len(L.result_values) : L.result_values[j].kind = "object"
    /\ \A k \in 1..Len(L.uncached_requests) :
           \E j \in 1..Len(L.result_values) :
               L.result_values[j].id = L.uncached_requests[k].id

\* The state in which the correlation loop starts on the array vs.
CorrelationStart(L, vs) ==
    [L EXCEPT !.pc = "correlate",
              !.index = 1,
              !.held = 1,
              !.result_values = vs,
              !.ordered_requests_result = L.classified,
              !.bound = [i \in 1..Len(L.requests) |-> 0],
              !.cache_writes = <<>>,
              !.assembled = FALSE,
              !.response = None]

Permuted(vs, p) == [j \in 1..Len(vs) |-> vs[p[j]]]

\* The response section 4.G step 6 gives a pending request for element e.
ResponseFor(rq, e) ==
    IF e.error # "null"
    THEN [id |-> rq.id, kind |-> "custom", value |-> e.error]
    ELSE IF IsSome(rq.cache_key) /\ extract_cache_value(e.result).tag = "err"
    THEN [id |-> rq.id, kind |-> "InternalError",
          value |-> "fail to extract cache value"]
    ELSE [id |-> rq.id, kind |-> "result", value |-> e.result]

Correlated(L) ==
    /\ L.pc \in {"done", "panicked"}
    /\ L.acquired = <<TRUE, TRUE>>

C4_OrderIndependence ==
    \A t \in Tasks :
        LET L == task[t]
            n == Len(L.result_values)
        IN (Correlated(L) /\ DistinctPendingIds(L) /\ EchoReply(L)) =>
           /\ L.pc = "done"
           /\ \A p \in Permutations(1..n) :
                  RunCorrelate(CorrelationStart(L, Permuted(L.result_values, p)),
                               L.cache0, [j \in 1..n |-> "ok"]).L.response
                      = L.response
           /\ \A k \in 1..n :
                  \A j \in 1..n :
                      L.result_values[j].id = L.uncached_requests[k].id =>
                          Unwrap(L.response).payload[L.uncached_requests[k].index]
                              = Some(ResponseFor(L.uncached_requests[k],
                                                 L.result_values[j]))

\* The upstream answered two pending requests in reverse order, with
\* different results.
C4_Witness ==
    \E t \in Tasks :
        LET L == task[t] IN
        /\ Correlated(L) /\ DistinctPendingIds(L) /\ EchoReply(L)
        /\ Len(L.uncached_requests) = 2
        /\ L.result_values[1].id = L.uncached_requests[2].id
        /\ L.result_values[1].result # L.result_values[2].result
        /\ L.pc = "done"

(***************************************************************************)
(* C6: isolation.  For a batch with one malformed entry, the other        *)
(* entries get the responses, and cause the cache reads, the upstream     *)
(* entries and the cache writes, of the run of the batch without the      *)
(* malformed entry, from the same cache and against the same upstream     *)
(* and backend behaviour.                                                  *)
(***************************************************************************)
Without(B, i) == [j \in 1..(Len(B) - 1) |-> IF j < i THEN B[j] ELSE B[j + 1]]

\* The index, in the batch without entry i, of entry j of the batch.
Shift(i, j) == IF j < i THEN j ELSE j - 1

\* The environment of the run of L, as the run without entry i meets it.
ReadOutcomes(L, i) ==
    [j \in 1..(Len(L.body.entries) - 1) |->
        IF \E k \in 1..Len(L.cache_reads) :
               /\ Shift(i, L.cache_reads[k].index) = j
               /\ L.cache_reads[k].index # i
               /\ L.cache_reads[k].status = "Err"
        THEN "err" ELSE "ok"]

WriteOutcomes(L) ==
    [j \in 1..Len(L.result_values) |->
        IF \E k \in 1..Len(L.cache_writes) :
               /\ L.cache_writes[k].elem = j
               /\ L.cache_writes[k].outcome = "err"
        THEN "err" ELSE "ok"]

ReplyOf(L) ==
    IF L.upstream = "none" THEN [kind |-> "transport_error", values |-> <<>>]
    ELSE [kind |-> L.upstream, values |-> L.result_values]

RunWithout(L, i) ==
    Run(ArrayBody(Without(L.body.entries, i)), L.cache0,
        L.acquired # <<>> /\ L.acquired[1],
        ReadOutcomes(L, i), ReplyOf(L),
        Len(L.acquired) < 2 \/ L.acquired[2],
        WriteOutcomes(L))

SameForTheOthers(L, c, alt, i) ==
    /\ alt.L.pc = L.pc
    /\ L.pc = "done" =>
           /\ Unwrap(L.response).shape = Unwrap(alt.L.response).shape
           /\ Unwrap(L.response).shape = "array" =>
                  \A j \in 1..Len(L.body.entries) :
                      j # i => Unwrap(L.response).payload[j]
                                   = Unwrap(alt.L.response).payload[Shift(i, j)]
    /\ alt.L.posts = L.posts
    /\ alt.L.cache_reads =
           [k \in 1..Len(L.cache_reads) |->
               [L.cache_reads[k] EXCEPT !.index = Shift(i, @)]]
    /\ alt.L.cache_writes =
           [k \in 1..Len(L.cache_writes) |->
               [L.cache_writes[k] EXCEPT !.slot = Shift(i, @)]]
    /\ alt.cache = c

OneMalformedAt(B, i) ==
    /\ Len(B) > 1
    /\ ~WellFormedEntry(B[i])
    /\ \A j \in 1..Len(B) : j # i => WellFormedEntry(B[j])

C6_Isolation ==
    \A t \in Tasks :
        LET L == task[t]
            B == L.body.entries
        IN (L.pc \in {"done", "panicked"} /\ L.body.shape = "array") =>
           \A i \in 1..Len(B) :
               OneMalformedAt(B, i) =>
                   SameForTheOthers(L, cache, RunWithout(L, i), i)

(***************************************************************************)
(* C11: a failure to acquire the backend handle after the upstream has    *)
(* returned a valid array is not visible to the client: every pending     *)
(* slot carries the result, or the error, of the upstream element with    *)
(* its id, and only the cache writes are skipped.                          *)
(***************************************************************************)
\* The response of an uncached passthrough of element e for request rq.
PassthroughFor(rq, e) ==
    IF e.error # "null"
    THEN [id |-> rq.id, kind |-> "custom", value |-> e.error]
    ELSE [id |-> rq.id, kind |-> "result", value |-> e.result]

C11_WriteBackHandleFailure ==
    \A t \in Tasks :
        LET L == task[t]
            n == Len(L.result_values)
        IN (/\ L.pc \in {"done", "panicked"}
            /\ L.acquired = <<TRUE, FALSE>>
            /\ DistinctPendingIds(L)
            /\ EchoReply(L)) =>
           /\ L.pc = "done"
           /\ L.cache_writes = <<>>
           /\ cache = L.cache0
           /\ \A k \in 1..n :
                  \A j \in 1..n :
                      L.result_values[j].id = L.uncached_requests[k].id =>
                          Unwrap(L.response).payload[L.uncached_requests[k].index]
                              = Some(PassthroughFor(L.uncached_requests[k],
                                                    L.result_values[j]))

(***************************************************************************)
(* C12: when the backend handle cannot be acquired for the classification *)
(* of a batch of N entries, the response is an array of N InternalError   *)
(* responses with reason "fail to get cache backend", one per slot, and   *)
(* the request makes no cache read, no cache write and no upstream POST.  *)
(***************************************************************************)
C12_ClassificationHandleFailure ==
    \A t \in Tasks :
        LET L == task[t]
            B == L.body.entries
        IN (L.acquired = <<FALSE>> /\ L.body.shape = "array" /\ Len(B) >= 1) =>
           /\ L.pc = "done"
           /\ L.cache_reads = <<>>
           /\ L.cache_writes = <<>>
           /\ L.posts = <<>>
           /\ cache = L.cache0
           /\ LET R == Unwrap(L.response) IN
              /\ R.shape = "array"
              /\ Len(R.payload) = Len(B)
              /\ \A i \in 1..Len(R.payload) :
                     /\ IsSome(R.payload[i])
                     /\ Unwrap(R.payload[i]).kind = "InternalError"
                     /\ Unwrap(R.payload[i]).value = "fail to get cache backend"

(***************************************************************************)
(* C13: a slot that holds a response is never given another one by a      *)
(* later step of the same request: the classification resolves it once,   *)
(* or one upstream element does (the element's own ExtractValue-error     *)
(* override belonging to the step that binds it), and no other upstream   *)
(* element overwrites it, whatever the upstream array is.                  *)
(***************************************************************************)
C13_SlotResolvedOnce ==
    [][\A t \in Tasks :
         LET L == task[t]
             M == task'[t]
         IN (L.pc \in {"classify", "upstream", "acquire2", "correlate"}
             /\ M.pc # "idle") =>
            \A slot \in 1..Len(L.ordered_requests_result) :
                IsSome(L.ordered_requests_result[slot]) =>
                    M.ordered_requests_result[slot] = L.ordered_requests_result[slot]]_vars

(***************************************************************************)
(* C14: the step that handles an upstream element carrying a non-null     *)
(* error resolves the slot it is bound to with a custom error mirroring   *)
(* that error under the slot's own request id, makes no cache write and   *)
(* leaves the cache as it is, also when the slot is pending-cacheable     *)
(* (the value extraction, whose error would replace the response, is not  *)
(* reached).                                                               *)
(***************************************************************************)
ErrorElem(e) == e.kind = "object" /\ e.error # "null"

C14_UpstreamErrorSurfaced ==
    [][\A t \in Tasks :
         LET L == task[t]
             M == task'[t]
         IN (/\ L.pc = "correlate"
             /\ L.index <= Len(L.result_values)
             /\ ErrorElem(L.result_values[L.index])) =>
            /\ M.pc = "correlate"
            /\ M.index = L.index + 1
            /\ cache' = cache
            /\ M.cache_writes = L.cache_writes
            /\ \A slot \in 1..Len(L.body.entries) :
                   IF M.bound[slot] = L.index /\ L.bound[slot] # L.index
                   THEN M.ordered_requests_result[slot] =
                            Some([id |-> L.body.entries[slot].id, kind |-> "custom",
                                  value |-> L.result_values[L.index].error])
                   ELSE M.ordered_requests_result[slot] =
                            L.ordered_requests_result[slot]]_vars

\* An upstream error was bound to a pending-cacheable slot, and the cache
\* is the one the request started with.
C14_Witness ==
    \E t \in Tasks :
        LET L == task[t] IN
        /\ L.pc = "correlate"
        /\ L.index = 2
        /\ \E slot \in 1..Len(L.body.entries) :
               /\ Keyed(L, slot)
               /\ L.bound[slot] = 1
               /\ ErrorElem(L.result_values[1])
               /\ Unwrap(L.ordered_requests_result[slot]).kind = "custom"
        /\ cache = L.cache0

(***************************************************************************)
(* C15: cache errors are recovered locally.  An entry whose cache read    *)
(* fails is pending without a cache key: it is posted upstream, nothing   *)
(* is written back for it, and the client receives the result or error    *)
(* of the upstream element bound to it.  The outcome of the write-backs   *)
(* has no effect on any response: the correlation of the same upstream    *)
(* array ends in the same response whichever writes fail.                  *)
(***************************************************************************)
ReadFailed(L, i) ==
    \E k \in 1..Len(L.cache_reads) :
        L.cache_reads[k].index = i /\ L.cache_reads[k].status = "Err"

C16_HandleDiscipline ==
    /\ \A t \in PoolTasks :
           /\ task[t].held \in {0, 1}
           /\ task[t].held = 1 => task[t].pc \in {"classify", "correlate"}
           /\ task[t].pc = "upstream" => task[t].held = 0
    /\ HandlesInUse <= PoolSize
    /\ \A t \in PoolTasks :
           (/\ task[t].pc \in {"acquire", "acquire2"}
            /\ \A u \in PoolTasks \ {t} : task[u].pc = "upstream") =>
               HandlesInUse < PoolSize

\* One request classifies with the handle while the other, past its own
\* classification, waits on the upstream.
C16_Witness ==
    \E t, u \in PoolTasks :
        /\ task[t].pc = "upstream"
        /\ task[t].acquired = <<TRUE>>
        /\ task[u].pc = "classify"
        /\ task[u].held = 1
        /\ task[u].index = 2

(***************************************************************************)
(* C17: cache integrity.  When the upstream answers every forwarded       *)
(* request correctly, in order and echoing its id, every value a request  *)
(* writes to the cache under a key is the extracted value of the          *)
(* upstream's result for the entry (method, params) that key was derived  *)
(* from, and that entry's key was observed as Missed by the same request. *)
(***************************************************************************)
CorrectUpstream(L) ==
    /\ L.upstream = "array"
    /\ L.result_values = CorrectReplyFor(L.uncached_requests).values

\* Entry e is cacheable under key.
DerivedFrom(key, e) ==
    /\ WellFormedEntry(e)
    /\ e.method \in RegisteredMethods
    /\ extract_cache_key(e.params).tag = "key"
    /\ CacheKey(e.method, extract_cache_key(e.params).key) = key

C17_CacheIntegrity ==
    \A t \in Tasks :
        LET L == task[t]
            B == L.body.entries
        IN CorrectUpstream(L) =>
           \A w \in 1..Len(L.cache_writes) :
               LET wr == L.cache_writes[w] IN
               /\ \E i \in 1..Len(B) :
                      /\ DerivedFrom(wr.key, B[i])
                      /\ \E k \in 1..Len(L.cache_reads) :
                             /\ L.cache_reads[k].index = i
                             /\ L.cache_reads[k].status = "Missed"
               /\ \A i \in 1..Len(B) :
                      DerivedFrom(wr.key, B[i]) =>
                          wr.value = to_string(extract_cache_value(
                                         Truth(B[i].method, B[i].params)).value)

(***************************************************************************)
(* C18: frame of correlation.  A slot resolved from the cache during      *)
(* classification is never modified afterwards, and for every upstream    *)
(* outcome the request ends with a response that carries, at that slot,   *)
(* the cached value under the entry's own id: once the upstream has       *)
(* answered, the request does not end without a response.                  *)
(***************************************************************************)
\* The response of a cache hit for entry e, from the cache the request met.
HitResponse(L, e) ==
    [id |-> e.id, kind |-> "result",
     value |-> from_str(L.cache0[CacheKey(e.method,
                                          extract_cache_key(e.params).key)])]

C18_CachedSlotFrame ==
    \A t \in Tasks :
        LET L == task[t]
            B == L.body.entries
        IN \A i \in 1..Len(B) :
               Hit(L, i) =>
                   /\ L.ordered_requests_result[i] = Some(HitResponse(L, B[i]))
                   /\ L.upstream # "none" => L.pc # "panicked"
                   /\ L.pc = "done" =>
                          /\ Len(Unwrap(L.response).payload) >= i
                          /\ Unwrap(L.response).payload[i] = Some(HitResponse(L, B[i]))

\* C18 without its last clause: the slot of a cache hit keeps the cached
\* response in every state of the request, and a response that is sent
\* carries it.
C18_SlotKept ==
    \A t \in Tasks :
        LET L == task[t]
            B == L.body.entries
        IN \A i \in 1..Len(B) :
               Hit(L, i) =>
                   /\ L.ordered_requests_result[i] = Some(HitResponse(L, B[i]))
                   /\ L.pc = "done" =>
                          /\ Len(Unwrap(L.response).payload) >= i
                          /\ Unwrap(L.response).payload[i] = Some(HitResponse(L, B[i]))

(***************************************************************************)
(* C19: correlation with a well-behaved upstream.  When the upstream      *)
(* returns one element per pending request, in request order, each        *)
(* echoing its request's id, every pending slot is resolved with the      *)
(* result or error of the element at its own position in the pending      *)
(* list, also when pending entries share an id or carry none.              *)
(***************************************************************************)
C19_WellBehavedUpstream ==
    \A t \in Tasks :
        LET L == task[t] IN
        (/\ L.pc \in {"done", "panicked"}
         /\ L.acquired = <<TRUE, TRUE>>
         /\ CorrectUpstream(L)) =>
            /\ L.pc = "done"
            /\ \A k \in 1..Len(L.uncached_requests) :
                   Unwrap(L.response).payload[L.uncached_requests[k].index]
                       = Some(ResponseFor(L.uncached_requests[k], L.result_values[k]))

(***************************************************************************)
(* C20: totality of assembly.  For a request whose entries are all        *)
(* well-formed, and whatever the upstream does, when rpc_call reaches the *)
(* assembly every slot holds a response: a single request gets a response *)
(* object (the unwrap of slot 0 does not fail) and a batch response has   *)
(* no unresolved (null) element.                                           *)
(***************************************************************************)
C20_AssemblyTotal ==
    \A t \in Tasks :
        LET L == task[t]
            B == L.body.entries
        IN (L.assembled /\ \A i \in 1..Len(B) : WellFormedEntry(B[i])) =>
           /\ \A i \in 1..Len(L.ordered_requests_result) :
                  IsSome(L.ordered_requests_result[i])
           /\ L.pc = "done"
           /\ \A i \in 1..Len(Unwrap(L.response).payload) :
                  IsSome(Unwrap(L.response).payload[i])
====
